---- MODULE Spec2Model ----
(***************************************************************************)
(* FocusNoiseCLI: the AudioManager mixer (audio_manager.py), its texture   *)
(* scheduler, and the session loop of FocusApp.run (main.py).              *)
(*                                                                         *)
(* Units: time is counted in tenths of a second (one poll sleep of the     *)
(* session loop is 1), volumes in percent (master_volume 1.0 is 100, the   *)
(* keystroke step 0.05 is 5).                                              *)
(***************************************************************************)
EXTENDS Integers, Sequences, FiniteSets, TLC

(***************************************************************************)
(* Bounds of the model.                                                    *)
(***************************************************************************)
\* number of playback channels of the audio backend
NumChannels == 2
\* the clock is not advanced by a stall or a free step beyond this
MaxTime == 1800
\* step of the clock between two mixer calls
TimeStep == 900
\* longest time spent in the menus before the session starts
MenuDelayMax == 1000
\* length of a stall of the process during a sleep
StallLen == 3
\* most entries of a directory that is scanned
MaxEntries == 3
\* step of the clock between two calls of the texture scheduler
SchedStep == 300

(***************************************************************************)
(* Strings.  A file name or theme key is a TLA+ string; Spell gives its    *)
(* characters so that splitext / replace / lower / `in` are computed.      *)
(***************************************************************************)
Spell(s) ==
    CASE s = "rain_sounds.wav" -> <<"r", "a", "i", "n", "_", "s", "o", "u", "n", "d", "s", ".", "w", "a", "v">>
      [] s = "Sea.mp3" -> <<"S", "e", "a", ".", "m", "p", "3">>
      [] s = "white-noise.wav" -> <<"w", "h", "i", "t", "e", "-", "n", "o", "i", "s", "e", ".", "w", "a", "v">>
      [] s = "missing.wav" -> <<"m", "i", "s", "s", "i", "n", "g", ".", "w", "a", "v">>
      [] s = "Brown Noise" -> <<"B", "r", "o", "w", "n", " ", "N", "o", "i", "s", "e">>
      [] s = "City" -> <<"C", "i", "t", "y">>
      [] s = "Coffee Shop" -> <<"C", "o", "f", "f", "e", "e", " ", "S", "h", "o", "p">>
      [] s = "Fire" -> <<"F", "i", "r", "e">>
      [] s = "Flowing Water" -> <<"F", "l", "o", "w", "i", "n", "g", " ", "W", "a", "t", "e", "r">>
      [] s = "Gentle Rain" -> <<"G", "e", "n", "t", "l", "e", " ", "R", "a", "i", "n">>
      [] s = "Lofi" -> <<"L", "o", "f", "i">>
      [] s = "Omm" -> <<"O", "m", "m">>
      [] s = "Rain Sounds" -> <<"R", "a", "i", "n", " ", "S", "o", "u", "n", "d", "s">>
      [] s = "Sea Wave" -> <<"S", "e", "a", " ", "W", "a", "v", "e">>
      [] s = "broken.ogg" -> <<"b", "r", "o", "k", "e", "n", ".", "o", "g", "g">>
      [] s = "notes.txt" -> <<"n", "o", "t", "e", "s", ".", "t", "x", "t">>
      [] s = "album.mp3" -> <<"a", "l", "b", "u", "m", ".", "m", "p", "3">>
      [] s = "LOUD.WAV" -> <<"L", "O", "U", "D", ".", "W", "A", "V">>
      [] s = "Low" -> <<"L", "o", "w">>
      [] s = "HIGH" -> <<"H", "I", "G", "H">>
      [] s = "often" -> <<"o", "f", "t", "e", "n">>

UpperCase == <<"A","B","C","D","E","F","G","H","I","J","K","L","M","N","O","P","Q","R","S","T","U","V","W","X","Y","Z">>

LowerCase == <<"a","b","c","d","e","f","g","h","i","j","k","l","m","n","o","p","q","r","s","t","u","v","w","x","y","z">>

\* str.lower() of one character
LowerChar(c) ==
    IF \E i \in 1..Len(UpperCase) : UpperCase[i] = c
    THEN LowerCase[CHOOSE i \in 1..Len(UpperCase) : UpperCase[i] = c]
    ELSE c

\* str.lower()
Lower(cs) == [i \in 1..Len(cs) |-> LowerChar(cs[i])]

\* str.replace(old, new) for single characters
Replace(cs, old, new) == [i \in 1..Len(cs) |-> IF cs[i] = old THEN new ELSE cs[i]]

\* os.path.splitext(name)[0] for a name without directory separators: cut
\* at the last dot unless only dots precede it
SplitExtRoot(cs) ==
    LET dots == {i \in 1..Len(cs) : cs[i] = "."}
    IN  IF dots = {} THEN cs
        ELSE LET d == CHOOSE i \in dots : \A j \in dots : j <= i
             IN  IF \E i \in 1..(d - 1) : cs[i] # "." THEN SubSeq(cs, 1, d - 1) ELSE cs

\* Path(name).suffix: from the last dot on, empty when there is no dot or the
\* last dot begins or ends the name
Suffix(cs) ==
    LET dots == {i \in 1..Len(cs) : cs[i] = "."}
    IN  IF dots = {} THEN <<>>
        ELSE LET d == CHOOSE i \in dots : \A j \in dots : j <= i
             IN  IF 1 < d /\ d < Len(cs) THEN SubSeq(cs, d, Len(cs)) ELSE <<>>

\* Python's `a in b` on strings
IsSubstring(a, b) ==
    \E i \in 0..(Len(b) - Len(a)) : \A j \in 1..Len(a) : b[i + j] = a[j]

(***************************************************************************)
(* audio_manager.py: TEXTURE_MAP                                           *)
(***************************************************************************)
TEXTURE_KEYS ==
    <<"Brown Noise", "City", "Coffee Shop", "Fire", "Flowing Water",
      "Gentle Rain", "Lofi", "Omm", "Rain Sounds", "Sea Wave">>

TEXTURE_MAP(key) ==
    CASE key = "Brown Noise" -> <<"keyboard.mp3", "page-turn.mp3", "vinyl-crackle.mp3">>
      [] key = "City" -> <<"distant-ambulance-siren.mp3", "distant-train.mp3", "bike-bell.mp3", "door-open-close-with-bell.mp3">>
      [] key = "Coffee Shop" -> <<"espresso-steam.mp3", "pouring-coffee.mp3", "spoon-and-cup.mp3", "cup-and-saucer.mp3", "cash-register.mp3">>
      [] key = "Fire" -> <<"page-turn.mp3", "vinyl-crackle.mp3", "crickets.mp3", "owl.mp3", "winter-wind.mp3">>
      [] key = "Flowing Water" -> <<"frog.mp3", "wind-chimes.mp3", "distant-thunder.mp3">>
      [] key = "Gentle Rain" -> <<"distant-thunder.mp3", "winter-wind.mp3", "wind-chimes.mp3">>
      [] key = "Lofi" -> <<"vinyl-crackle.mp3", "keyboard.mp3", "page-turn.mp3", "big-bell.mp3">>
      [] key = "Omm" -> <<"big-bell.mp3", "wind-chimes.mp3">>
      [] key = "Rain Sounds" -> <<"distant-thunder.mp3", "winter-wind.mp3">>
      [] key = "Sea Wave" -> <<"seagull.mp3", "distant-foghorn.mp3", "winter-wind.mp3">>

Range(seq) == {seq[i] : i \in 1..Len(seq)}

\* every texture file name the map mentions
AllTextures == UNION {Range(TEXTURE_MAP(TEXTURE_KEYS[k])) : k \in 1..Len(TEXTURE_KEYS)}

(***************************************************************************)
(* Program constants.                                                      *)
(***************************************************************************)
\* time.sleep(0.1) of the session loop
TICK_SLEEP == 1
\* time.sleep(2.0) after stop_all
FADE_WAIT == 20
\* time.sleep(4.0) after play_gong
GONG_WAIT == 40
\* master_volume +/- 0.05
VOLUME_STEP == 5
\* self.master_volume = 1.0
FULL_VOLUME == 100

GONG_FILE == "gong.mp3"

\* set_weather_frequency: ranges, in tenths of a second
WeatherRanges(level) ==
    CASE Lower(level) = <<"l", "o", "w">> -> <<600, 1200>>
      [] Lower(level) = <<"m", "e", "d", "i", "u", "m">> -> <<300, 900>>
      [] Lower(level) = <<"h", "i", "g", "h">> -> <<150, 450>>
      [] OTHER -> <<300, 900>>

\* the values random.uniform(lo, hi) is sampled at: both ends
Uniform(r) == {r[1], r[2]}

\* variant of TextureFactors: random.uniform(0.3, 1.0)
TextureFactorsLoud == {30, 100}

\* the values random.uniform(0.3, 0.6) is sampled at, in percent
TextureFactors == {30, 60}

(***************************************************************************)
(* The files on disk.                                                      *)
(***************************************************************************)
\* loop files in the assets directory
LoopFiles == {"rain_sounds.wav", "Sea.mp3", "white-noise.wav"}

\* names a caller may pass to play_sound
LoopNames == LoopFiles \cup {"missing.wav"}

\* the contents of the textures and sfx directories the program may find:
\* everything, or some textures and the gong are missing
AssetPools ==
    {[textures |-> AllTextures, sfx |-> {GONG_FILE}],
     [textures |-> {"distant-thunder.mp3", "seagull.mp3"}, sfx |-> {}]}

\* an unused channel of the backend
FreeChannel == [st |-> "free", pool |-> "none", name |-> "none", vol |-> 0]

\* last_tex when the last step made no texture evaluation; vol is the volume
\* passed to Sound.set_volume, in hundredths of a percent
NoTexture == [fired |-> FALSE, name |-> "none", played |-> FALSE, vol |-> 0]

\* last_call when the last step was no mixer call; raised is the exception a
\* call let through to its caller ("none": it returned normally)
NoCall == [op |-> "none", name |-> "none", level |-> 0, raised |-> "none", ok |-> FALSE]

VARIABLES
    \* AudioManager
    sounds, sfx, textures, channels, playing, master_volume,
    last_texture_time, weather_freq_range, next_texture_interval,
    \* pygame.mixer: whether it initialised, and its channels
    mixer_ok, chan,
    \* the directory _scan_folder is given, and the load errors it printed
    folder, scan_log,
    \* time.time()
    now,
    \* FocusApp.run
    pc, files, fidx, duration, start_time, elapsed, key, steps, stats_log,
    message, error, intr_at, tty_mode, rendered,
    \* history: the last mixer call and the last texture evaluation
    last_call, last_tex

mixer_vars == <<sounds, sfx, textures, channels, playing, master_volume,
                last_texture_time, weather_freq_range, next_texture_interval>>

\* what AudioManager.__init__ found and reported
boot_vars == <<mixer_ok, folder, scan_log>>

backend_vars == <<boot_vars, chan>>

session_vars == <<pc, files, fidx, duration, start_time, elapsed, key, steps, stats_log,
                  message, error, intr_at, tty_mode, rendered>>

vars == <<mixer_vars, backend_vars, now, session_vars, last_call, last_tex>>


(***************************************************************************)
(* pygame.mixer, as far as AudioManager uses it.                           *)
(***************************************************************************)
Channels == 1..NumChannels

Busy(c) == chan[c].st # "free"

FreeChannels == {c \in Channels : ~Busy(c)}

\* Sound.play(): the first channel that is not busy, 0 (None) if all are
PickChannel == IF FreeChannels = {} THEN 0 ELSE CHOOSE c \in FreeChannels : \A d \in FreeChannels : c <= d

\* variant of ChanPlay: when no channel is free the sound takes over channel 1
ChanPlaySteal(ch, c, pool, name, vol) ==
    [ch EXCEPT ![IF c = 0 THEN 1 ELSE c] = [st |-> "playing", pool |-> pool, name |-> name, vol |-> vol]]

\* the channels after Sound.play() of sound `name` of pool `pool` on channel c
\* (0: none was free); vol is the output volume in percent, Sound volume times
\* Channel volume
ChanPlay(ch, c, pool, name, vol) ==
    IF c = 0 THEN ch
    ELSE [ch EXCEPT ![c] = [st |-> "playing", pool |-> pool, name |-> name, vol |-> vol]]

\* Sound.set_volume(vol) of sound `name` of pool `pool`: the volume of the
\* sample, heard on every channel that is playing it
ChanSetVolume(ch, pool, name, vol) ==
    [c \in Channels |->
        IF ch[c].st # "free" /\ ch[c].pool = pool /\ ch[c].name = name
        THEN [ch[c] EXCEPT !.vol = vol] ELSE ch[c]]

\* variant of ChanFadeout: only the channel stored in self.channels is faded
\* (Channel.fadeout instead of Sound.fadeout)
ChanFadeoutTracked(ch, names) ==
    [c \in Channels |->
        IF ch[c].st = "playing" /\ ch[c].pool = "loop" /\ (\E n \in names : channels[n] = c)
        THEN [ch[c] EXCEPT !.st = "fading", !.vol = 0] ELSE ch[c]]

\* Sound.fadeout(ms) of the loop sounds `names`: every channel playing one of
\* them starts fading, its volume on the way to silence
ChanFadeout(ch, names) ==
    [c \in Channels |->
        IF ch[c].st = "playing" /\ ch[c].pool = "loop" /\ ch[c].name \in names
        THEN [ch[c] EXCEPT !.st = "fading", !.vol = 0] ELSE ch[c]]

\* a fade-out completes, or a one-shot reaches its end: the channel is free again
ChannelDone(c) ==
    /\ \/ chan[c].st = "fading"
       \/ chan[c].st = "playing" /\ chan[c].pool # "loop"
    /\ chan' = [chan EXCEPT ![c] = FreeChannel]
    /\ last_call' = NoCall
    /\ last_tex' = NoTexture
    /\ UNCHANGED <<mixer_vars, boot_vars, now, session_vars>>

(***************************************************************************)
(* audio_manager.py: AudioManager                                          *)
(***************************************************************************)
\* the names in self.channels (0: no entry)
Tracked == {n \in LoopNames : channels[n] # 0}

NoChannels == [n \in LoopNames |-> 0]

Min(a, b) == IF a < b THEN a ELSE b

Max(a, b) == IF a > b THEN a ELSE b

\* variant of Clamp: the upper limit is missing
ClampNoCeiling(level) == Max(0, level)

\* max(0.0, min(1.0, level))
Clamp(level) == Max(0, Min(FULL_VOLUME, level))

\* variant of play_sound: the test `filename in self.sounds` is missing
play_sound_unguarded(filename) ==
    LET c == PickChannel
    IN  /\ IF c # 0
           THEN /\ chan' = [ChanPlay(chan, c, "loop", filename, FULL_VOLUME) EXCEPT ![c].vol = master_volume]
                /\ channels' = [channels EXCEPT ![filename] = c]
                /\ playing' = IF filename \in Range(playing) THEN playing ELSE Append(playing, filename)
           ELSE UNCHANGED <<chan, channels, playing>>
        /\ last_call' = [op |-> "play_sound", name |-> filename, level |-> master_volume, raised |-> "none", ok |-> (c # 0)]
        /\ UNCHANGED <<sounds, sfx, textures, master_volume, last_texture_time,
                       weather_freq_range, next_texture_interval>>
        /\ last_tex' = NoTexture

\* play_sound(filename, fade_ms); an exception of Sound.play is caught and printed
play_sound(filename) ==
    LET c == PickChannel
    IN  /\ IF filename \in sounds /\ c # 0
           THEN /\ chan' = [ChanPlay(chan, c, "loop", filename, FULL_VOLUME) EXCEPT ![c].vol = master_volume]
                /\ channels' = [channels EXCEPT ![filename] = c]
                /\ playing' = IF filename \in Range(playing) THEN playing ELSE Append(playing, filename)
           ELSE UNCHANGED <<chan, channels, playing>>
        /\ last_call' = [op |-> "play_sound", name |-> filename, level |-> master_volume, raised |-> "none", ok |-> (filename \in sounds /\ c # 0)]
        /\ UNCHANGED <<sounds, sfx, textures, master_volume, last_texture_time,
                       weather_freq_range, next_texture_interval>>
        /\ last_tex' = NoTexture

\* variant of set_master_volume: the level is stored but not applied to the
\* channels of the active loops
set_master_volume_stored(level) ==
    /\ master_volume' = Clamp(level)
    /\ chan' = chan
    /\ last_call' = [op |-> "set_master_volume", name |-> "none", level |-> level, raised |-> "none", ok |-> TRUE]
    /\ last_tex' = NoTexture
    /\ UNCHANGED <<sounds, sfx, textures, channels, playing, last_texture_time,
                   weather_freq_range, next_texture_interval>>

\* set_master_volume(level)
set_master_volume(level) ==
    /\ master_volume' = Clamp(level)
    /\ chan' = [c \in Channels |->
                  IF (\E n \in Tracked : channels[n] = c) /\ Busy(c)
                  THEN [chan[c] EXCEPT !.vol = Clamp(level)] ELSE chan[c]]
    /\ last_call' = [op |-> "set_master_volume", name |-> "none", level |-> level, raised |-> "none", ok |-> TRUE]
    /\ last_tex' = NoTexture
    /\ UNCHANGED <<sounds, sfx, textures, channels, playing, last_texture_time,
                   weather_freq_range, next_texture_interval>>

\* the sounds stop_all fades out
FadeoutNames == {n \in Range(playing) : n \in sounds}

\* stop_all(fade_ms)
stop_all ==
    /\ chan' = ChanFadeout(chan, FadeoutNames)
    /\ playing' = <<>>
    /\ channels' = NoChannels
    /\ last_call' = [op |-> "stop_all", name |-> "none", level |-> 0, raised |-> "none", ok |-> TRUE]
    /\ last_tex' = NoTexture
    /\ UNCHANGED <<sounds, sfx, textures, master_volume, last_texture_time,
                   weather_freq_range, next_texture_interval>>

\* variant of play_gong: the gong is played without set_volume(master_volume)
play_gong_full_volume ==
    /\ chan' = IF GONG_FILE \in sfx THEN ChanPlay(chan, PickChannel, "sfx", GONG_FILE, FULL_VOLUME) ELSE chan
    /\ last_call' = [op |-> "play_gong", name |-> GONG_FILE, level |-> master_volume, raised |-> "none", ok |-> (GONG_FILE \in sfx)]
    /\ last_tex' = NoTexture
    /\ UNCHANGED mixer_vars

\* play_gong()
play_gong ==
    /\ chan' = IF GONG_FILE \in sfx
               THEN ChanPlay(ChanSetVolume(chan, "sfx", GONG_FILE, master_volume),
                             PickChannel, "sfx", GONG_FILE, master_volume)
               ELSE chan
    /\ last_call' = [op |-> "play_gong", name |-> GONG_FILE, level |-> master_volume, raised |-> "none", ok |-> (GONG_FILE \in sfx)]
    /\ last_tex' = NoTexture
    /\ UNCHANGED mixer_vars

\* set_weather_frequency(level)
set_weather_frequency(level) ==
    /\ weather_freq_range' = WeatherRanges(Spell(level))
    /\ last_call' = [op |-> "set_weather_frequency", name |-> level, level |-> 0, raised |-> "none", ok |-> TRUE]
    /\ UNCHANGED <<sounds, sfx, textures, channels, playing, master_volume,
                   last_texture_time, next_texture_interval, chan>>
    /\ last_tex' = NoTexture

\* os.path.splitext(loop_file)[0].replace("_", " ").replace("-", " ").lower()
LoopNameClean(loop_file) ==
    Lower(Replace(Replace(SplitExtRoot(Spell(loop_file)), "_", " "), "-", " "))

\* variant of KeyMatches: `key.lower() in loop_name_clean or key.lower()`
KeyMatchesTruthy(k, loop_file) ==
    \/ IsSubstring(Lower(Spell(k)), LoopNameClean(loop_file))
    \/ Lower(Spell(k)) # <<>>

\* key.lower() in loop_name_clean or loop_name_clean in key.lower()
KeyMatches(k, loop_file) ==
    \/ IsSubstring(Lower(Spell(k)), LoopNameClean(loop_file))
    \/ IsSubstring(LoopNameClean(loop_file), Lower(Spell(k)))

\* the theme keys that match one loop file: the inner loop over TEXTURE_MAP
KeyTable ==
    [f \in LoopNames |->
        {TEXTURE_KEYS[k] : k \in {i \in 1..Len(TEXTURE_KEYS) : KeyMatches(TEXTURE_KEYS[i], f)}}]

\* the theme keys matched by the loops in `loops`: the outer loop over playing
MatchedKeys(loops) == UNION {KeyTable[loops[j]] : j \in 1..Len(loops)}

\* the elements of valid_textures built from the loops in `loops`
ValidTextures(loops) == UNION {Range(TEXTURE_MAP(k)) : k \in MatchedKeys(loops)}

\* variant of TextureChoices: the candidates are built from every loaded
\* sound, not from the playing ones, and without the early return
TextureChoicesAnySound(loops) == UNION {Range(TEXTURE_MAP(k)) : k \in UNION {KeyTable[f] : f \in sounds}}

\* what play_random_texture may pick: nothing when no loop is playing
TextureChoices(loops) == IF loops = <<>> THEN {} ELSE ValidTextures(loops)

\* play_random_texture(), as part of the evaluation at time now
play_random_texture ==
    IF TextureChoices(playing) = {}
    THEN /\ last_tex' = [NoTexture EXCEPT !.fired = TRUE]
         /\ UNCHANGED chan
    ELSE \E t \in TextureChoices(playing), f \in TextureFactors :
            /\ last_tex' = [fired |-> TRUE, name |-> t, played |-> (t \in textures),
                            vol |-> IF t \in textures THEN master_volume * f ELSE 0]
            /\ chan' = IF t \in textures
                       THEN ChanPlay(ChanSetVolume(chan, "texture", t, (master_volume * f) \div 100),
                                     PickChannel, "texture", t, (master_volume * f) \div 100)
                       ELSE chan

\* variant of update_textures: the trigger time and the interval are only
\* renewed when a texture was played
update_textures_on_play ==
    /\ IF now - last_texture_time > next_texture_interval
       THEN /\ play_random_texture
            /\ IF last_tex'.played
               THEN /\ last_texture_time' = now
                    /\ next_texture_interval' \in Uniform(weather_freq_range)
               ELSE UNCHANGED <<last_texture_time, next_texture_interval>>
       ELSE /\ last_tex' = NoTexture
            /\ UNCHANGED <<chan, last_texture_time, next_texture_interval>>
    /\ last_call' = [op |-> "update_textures", name |-> "none", level |-> 0, raised |-> "none",
                     ok |-> (now - last_texture_time > next_texture_interval)]
    /\ UNCHANGED <<sounds, sfx, textures, channels, playing, master_volume, weather_freq_range>>

\* update_textures()
update_textures ==
    /\ IF now - last_texture_time > next_texture_interval
       THEN /\ play_random_texture
            /\ last_texture_time' = now
            /\ next_texture_interval' \in Uniform(weather_freq_range)
       ELSE /\ last_tex' = NoTexture
            /\ UNCHANGED <<chan, last_texture_time, next_texture_interval>>
    /\ last_call' = [op |-> "update_textures", name |-> "none", level |-> 0,
                     raised |-> "none", ok |-> (now - last_texture_time > next_texture_interval)]
    /\ UNCHANGED <<sounds, sfx, textures, channels, playing, master_volume, weather_freq_range>>

\* valid_extensions
valid_extensions == {<<".", "w", "a", "v">>, <<".", "m", "p", "3">>, <<".", "o", "g", "g">>}

\* pygame.mixer.Sound(path) returns: the mixer is initialised and the file decodes
SoundLoads(item) == mixer_ok /\ item.valid

\* variant of ScanItems: the first load error ends the scan
RECURSIVE ScanItemsAbort(_, _, _)
ScanItemsAbort(items, storage, log) ==
    IF items = <<>> THEN [storage |-> storage, log |-> log]
    ELSE LET item == Head(items)
         IN  IF item.is_file /\ Lower(Suffix(Spell(item.name))) \in valid_extensions
             THEN IF SoundLoads(item)
                  THEN ScanItemsAbort(Tail(items), storage \cup {item.name}, log)
                  ELSE [storage |-> storage, log |-> Append(log, item.name)]
             ELSE ScanItemsAbort(Tail(items), storage, log)

\* for item in folder.iterdir(): the keys of storage and the names printed
\* as load errors, after the items in listing order
RECURSIVE ScanItems(_, _, _)
ScanItems(items, storage, log) ==
    IF items = <<>> THEN [storage |-> storage, log |-> log]
    ELSE LET item == Head(items)
         IN  IF item.is_file /\ Lower(Suffix(Spell(item.name))) \in valid_extensions
             THEN IF SoundLoads(item)
                  THEN ScanItems(Tail(items), storage \cup {item.name}, log)
                  ELSE ScanItems(Tail(items), storage, Append(log, item.name))
             ELSE ScanItems(Tail(items), storage, log)

\* _scan_folder(folder, storage)
scan_folder(dir, storage, log) ==
    IF ~dir.exists THEN [storage |-> storage, log |-> log]
    ELSE ScanItems(dir.items, storage, log)

\* a regular file of a directory listing; valid: its content decodes
FileEntry(name, valid) == [name |-> name, is_file |-> TRUE, valid |-> valid]

\* the assets directory with the loop files
AssetsDir ==
    [exists |-> TRUE,
     items |-> <<FileEntry("Sea.mp3", TRUE), FileEntry("rain_sounds.wav", TRUE),
                 FileEntry("white-noise.wav", TRUE)>>]

\* AudioManager.__init__: pygame.mixer.init() may fail, and then no Sound loads
AudioInit ==
    /\ mixer_ok \in BOOLEAN
    /\ folder = AssetsDir
    /\ sounds = scan_folder(folder, {}, <<>>).storage
    /\ scan_log = scan_folder(folder, {}, <<>>).log
    /\ \E a \in AssetPools :
          /\ sfx = IF mixer_ok THEN a.sfx ELSE {}
          /\ textures = IF mixer_ok THEN a.textures ELSE {}
    /\ channels = NoChannels
    /\ playing = <<>>
    /\ master_volume = FULL_VOLUME
    /\ now = 0
    /\ last_texture_time = now
    /\ weather_freq_range = <<300, 900>>
    /\ next_texture_interval \in Uniform(weather_freq_range)
    /\ chan = [c \in Channels |-> FreeChannel]
    /\ last_call = NoCall
    /\ last_tex = NoTexture


(***************************************************************************)
(* The mixer driven through its public operations in any order.            *)
(***************************************************************************)
\* levels a caller may pass to set_master_volume
Levels == {45, 250}

\* steps of the clock between two calls
TimeSteps == {TimeStep}

\* levels a caller may pass to set_weather_frequency
FreqLevels == {"HIGH", "often", "Low"}

\* no session has been started
NoSession ==
    /\ files = <<>>
    /\ fidx = 1
    /\ duration = 0
    /\ start_time = -1
    /\ elapsed = 0
    /\ key = "none"
    /\ steps = <<>>
    /\ stats_log = <<>>
    /\ message = "none"
    /\ error = "none"
    /\ intr_at = "none"
    /\ tty_mode = "cooked"
    /\ rendered = -1

MixerInit ==
    /\ AudioInit
    /\ NoSession
    /\ pc = "api"

ApiFrame == UNCHANGED <<boot_vars, now, session_vars>>

CallPlaySound == \E f \in LoopNames : play_sound(f) /\ ApiFrame

CallSetMasterVolume == \E l \in Levels : set_master_volume(l) /\ ApiFrame

CallStopAll == stop_all /\ ApiFrame

CallPlayGong == play_gong /\ ApiFrame

CallSetWeatherFrequency == \E l \in FreqLevels : set_weather_frequency(l) /\ ApiFrame

CallUpdateTextures == update_textures /\ ApiFrame

AdvanceTime ==
    \E d \in TimeSteps :
        /\ now + d <= MaxTime
        /\ now' = now + d
        /\ last_call' = NoCall
        /\ last_tex' = NoTexture
        /\ UNCHANGED <<mixer_vars, backend_vars, session_vars>>

BackendStep == \E c \in Channels : ChannelDone(c)

MixerNext ==
    \/ CallPlaySound
    \/ CallSetMasterVolume
    \/ CallStopAll
    \/ CallPlayGong
    \/ CallUpdateTextures
    \/ AdvanceTime
    \/ BackendStep

MixerSpec == MixerInit /\ [][MixerNext]_vars


(***************************************************************************)
(* The texture scheduler: update_textures called at a finer pace, between  *)
(* changes of the loops and of the weather frequency.                      *)
(***************************************************************************)
SchedInit == MixerInit

\* the loops started here: one that matches a theme, one that matches none
SchedLoops == {"rain_sounds.wav", "white-noise.wav"}

SchedPlaySound == \E f \in SchedLoops : play_sound(f) /\ ApiFrame

SchedAdvanceTime ==
    /\ now + SchedStep <= MaxTime
    /\ now' = now + SchedStep
    /\ last_call' = NoCall
    /\ last_tex' = NoTexture
    /\ UNCHANGED <<mixer_vars, backend_vars, session_vars>>

SchedNext ==
    \/ SchedPlaySound
    \/ CallSetWeatherFrequency
    \/ CallUpdateTextures
    \/ SchedAdvanceTime
    \/ BackendStep

SchedSpec == SchedInit /\ [][SchedNext]_vars


(***************************************************************************)
(* _scan_folder on the directories it may be given.                        *)
(***************************************************************************)
\* the entries a scanned directory may hold: two files that decode, a corrupt
\* one, a file of another type, a sub-directory named like an audio file, and
\* a file with an upper-case extension
DirEntries ==
    {FileEntry("rain_sounds.wav", TRUE), FileEntry("Sea.mp3", TRUE),
     FileEntry("broken.ogg", FALSE), FileEntry("notes.txt", TRUE),
     [name |-> "album.mp3", is_file |-> FALSE, valid |-> FALSE],
     FileEntry("LOUD.WAV", TRUE)}

\* the listings iterdir() may yield: any entries in any order, each name once
Listings ==
    UNION {{l \in [1..n -> DirEntries] : \A i, j \in 1..n : i # j => l[i].name # l[j].name} :
              n \in 0..MaxEntries}

\* a missing directory, or an existing one with some listing
Folders == {[exists |-> FALSE, items |-> <<>>]} \cup {[exists |-> TRUE, items |-> l] : l \in Listings}

\* the state of __init__ before the first _scan_folder
ScanInit ==
    /\ mixer_ok \in BOOLEAN
    /\ folder \in Folders
    /\ sounds = {}
    /\ scan_log = <<>>
    /\ sfx = {}
    /\ textures = {}
    /\ channels = NoChannels
    /\ playing = <<>>
    /\ master_volume = FULL_VOLUME
    /\ now = 0
    /\ last_texture_time = now
    /\ weather_freq_range = <<300, 900>>
    /\ next_texture_interval = weather_freq_range[1]
    /\ chan = [c \in Channels |-> FreeChannel]
    /\ last_call = NoCall
    /\ last_tex = NoTexture
    /\ NoSession
    /\ pc = "scan"

\* self._scan_folder(self.assets_dir, self.sounds)
CallScanFolder ==
    /\ pc = "scan"
    /\ sounds' = scan_folder(folder, sounds, scan_log).storage
    /\ scan_log' = scan_folder(folder, sounds, scan_log).log
    /\ pc' = "scanned"
    /\ UNCHANGED <<sfx, textures, channels, playing, master_volume, last_texture_time,
                   weather_freq_range, next_texture_interval, mixer_ok, folder, chan, now,
                   files, fidx, duration, start_time, elapsed, key, steps, stats_log,
                   message, error, intr_at, tty_mode, rendered, last_call, last_tex>>

ScanNext == CallScanFolder

ScanSpec == ScanInit /\ [][ScanNext]_vars


(***************************************************************************)
(* main.py: FocusApp.run, one action per statement group; pc is the        *)
(* position in run().  start_time = -1 stands for the unbound local.       *)
(***************************************************************************)
\* session durations int(minutes * 60), in seconds
Durations == {-1, 0, 1}

\* initial volumes vol_percent the user may enter
VolumeInputs == {-10, 250}

\* the lists of selected files: one sound, or the same id entered twice
Selections == {<<"rain_sounds.wav">>, <<"white-noise.wav", "white-noise.wav">>}

\* the poll sleep time.sleep(d): at least d, longer when the process is stalled
SleepEnds(d) == {now + d} \cup {t \in {now + d + StallLen} : t <= MaxTime}

\* phase_one_selection(): the selection, the duration, the initial volume; the
\* time the user spends in the menus passes.  The selected files are values of
\* sound_map, which show_menu builds from the keys of audio.sounds.
PhaseOneSelection ==
    /\ pc = "select"
    /\ \E sel \in Selections, d \in Durations, v \in VolumeInputs, t \in {0, MenuDelayMax} :
          /\ \A i \in 1..Len(sel) : sel[i] \in sounds
          /\ files' = sel
          /\ duration' = d * 10
          /\ now' = now + t
          /\ set_master_volume(v)
    /\ pc' = "start_audio"
    /\ UNCHANGED <<boot_vars, fidx, start_time, elapsed, key, steps, stats_log,
                   message, error, intr_at, tty_mode, rendered>>

\* phase_one_selection() returns no files: run() returns at once
NoSelection ==
    /\ pc = "select"
    /\ pc' = "exit"
    /\ last_call' = NoCall
    /\ last_tex' = NoTexture
    /\ UNCHANGED <<mixer_vars, backend_vars, now, files, fidx, duration, start_time, elapsed,
                   key, steps, stats_log, message, error, intr_at, tty_mode, rendered>>

\* for f in files: self.audio.play_sound(f, fade_ms=2000)
StartAudio ==
    /\ pc = "start_audio"
    /\ fidx <= Len(files)
    /\ play_sound(files[fidx])
    /\ fidx' = fidx + 1
    /\ UNCHANGED <<boot_vars, now, pc, files, duration, start_time, elapsed, key, steps,
                   stats_log, message, error, intr_at, tty_mode, rendered>>

SessionFrame ==
    /\ last_call' = NoCall
    /\ last_tex' = NoTexture
    /\ UNCHANGED <<mixer_vars, backend_vars>>

\* old_settings = termios.tcgetattr(sys.stdin); try:
EnterTry ==
    /\ pc = "start_audio"
    /\ fidx > Len(files)
    /\ pc' = "try"
    /\ SessionFrame
    /\ UNCHANGED <<now, files, fidx, duration, start_time, elapsed, key, steps, stats_log,
                   message, error, intr_at, tty_mode, rendered>>

\* tty.setcbreak(sys.stdin.fileno())
SetCbreak ==
    /\ pc = "try"
    /\ tty_mode' = "cbreak"
    /\ pc' = "live"
    /\ SessionFrame
    /\ UNCHANGED <<now, files, fidx, duration, start_time, elapsed, key, steps, stats_log,
                   message, error, intr_at, rendered>>

\* with Live(...) as live: start_time = time.time()
StartClock ==
    /\ pc = "live"
    /\ start_time' = now
    /\ pc' = "tick"
    /\ SessionFrame
    /\ UNCHANGED <<now, files, fidx, duration, elapsed, key, steps, stats_log,
                   message, error, intr_at, tty_mode, rendered>>

\* variant of TimeUp: the loop is left only once remaining < 0
TimeUpStrict(el) == duration - el < 0

\* if remaining <= 0: break
TimeUp(el) == duration - el <= 0

\* while True: elapsed = time.time() - start_time; remaining = duration - elapsed
TickCheck ==
    /\ pc = "tick"
    /\ elapsed' = now - start_time
    /\ pc' = IF TimeUp(now - start_time) THEN "save" ELSE "textures"
    /\ key' = "none"
    /\ SessionFrame
    /\ UNCHANGED <<now, files, fidx, duration, start_time, steps, stats_log,
                   message, error, intr_at, tty_mode, rendered>>

\* self.audio.update_textures()
TickTextures ==
    /\ pc = "textures"
    /\ update_textures
    /\ pc' = "input"
    /\ UNCHANGED <<boot_vars, now, files, fidx, duration, start_time, elapsed, key, steps,
                   stats_log, message, error, intr_at, tty_mode, rendered>>

\* the keys check_input() may return
Keys == {"+", "-", "q"}

\* variant of TickInput: the key is read but the volume is left as it is
TickInputDeferred ==
    /\ pc = "input"
    /\ \/ /\ key' = "none"
          /\ SessionFrame
       \/ \E k \in Keys :
             /\ key' = k
             /\ SessionFrame
    /\ pc' = "render"
    /\ UNCHANGED <<now, files, fidx, duration, start_time, elapsed, steps,
                   stats_log, message, error, intr_at, tty_mode, rendered>>

\* key = self.check_input(); if key: ... set_master_volume(master_volume +/- 0.05)
TickInput ==
    /\ pc = "input"
    /\ \/ /\ key' = "none"
          /\ SessionFrame
       \/ \E k \in Keys :
             /\ key' = k
             /\ IF k \in {"+", "w", "="} THEN set_master_volume(master_volume + VOLUME_STEP)
                ELSE IF k \in {"-", "s"} THEN set_master_volume(master_volume - VOLUME_STEP)
                ELSE SessionFrame
    /\ pc' = "render"
    /\ UNCHANGED <<boot_vars, now, files, fidx, duration, start_time, elapsed, steps,
                   stats_log, message, error, intr_at, tty_mode, rendered>>

\* the layout is updated; rendered is the volume get_footer() shows
TickRender ==
    /\ pc = "render"
    /\ rendered' = master_volume
    /\ pc' = "sleep"
    /\ SessionFrame
    /\ UNCHANGED <<now, files, fidx, duration, start_time, elapsed, key, steps, stats_log,
                   message, error, intr_at, tty_mode>>

\* time.sleep(0.1)
TickSleep ==
    /\ pc = "sleep"
    /\ now' \in SleepEnds(TICK_SLEEP)
    /\ pc' = "tick"
    /\ SessionFrame
    /\ UNCHANGED <<files, fidx, duration, start_time, elapsed, key, steps, stats_log,
                   message, error, intr_at, tty_mode, rendered>>


\* StatsManager.update_time(seconds): nothing is written unless seconds > 0
update_time(seconds) ==
    /\ stats_log' = IF seconds <= 0 THEN stats_log ELSE Append(stats_log, seconds)
    /\ steps' = Append(steps, "update_time")

\* time-up path: elapsed_total = time.time() - start_time; self.stats.update_time(elapsed_total)
SaveStats ==
    /\ pc = "save"
    /\ update_time(now - start_time)
    /\ pc' = "fade"
    /\ SessionFrame
    /\ UNCHANGED <<now, files, fidx, duration, start_time, elapsed, key,
                   message, error, intr_at, tty_mode, rendered>>

\* time-up path: self.audio.stop_all(fade_ms=2000)
FadeOut ==
    /\ pc = "fade"
    /\ stop_all
    /\ steps' = Append(steps, "stop_all")
    /\ pc' = "fade_wait"
    /\ UNCHANGED <<boot_vars, now, files, fidx, duration, start_time, elapsed, key, stats_log,
                   message, error, intr_at, tty_mode, rendered>>

\* time-up path: time.sleep(2.0)
FadeWait ==
    /\ pc = "fade_wait"
    /\ now' = now + FADE_WAIT
    /\ steps' = Append(steps, "fade_wait")
    /\ pc' = "gong"
    /\ SessionFrame
    /\ UNCHANGED <<files, fidx, duration, start_time, elapsed, key, stats_log,
                   message, error, intr_at, tty_mode, rendered>>

\* time-up path: self.audio.play_gong()
PlayGong ==
    /\ pc = "gong"
    /\ play_gong
    /\ steps' = Append(steps, "play_gong")
    /\ pc' = "gong_wait"
    /\ UNCHANGED <<boot_vars, now, files, fidx, duration, start_time, elapsed, key, stats_log,
                   message, error, intr_at, tty_mode, rendered>>

\* time-up path: time.sleep(4.0)
GongWait ==
    /\ pc = "gong_wait"
    /\ now' = now + GONG_WAIT
    /\ steps' = Append(steps, "gong_wait")
    /\ pc' = "complete"
    /\ SessionFrame
    /\ UNCHANGED <<files, fidx, duration, start_time, elapsed, key, stats_log,
                   message, error, intr_at, tty_mode, rendered>>

\* time-up path: print "Session Complete!"; the try block ends
Complete ==
    /\ pc = "complete"
    /\ message' = "Session Complete!"
    /\ pc' = "finally"
    /\ SessionFrame
    /\ UNCHANGED <<now, files, fidx, duration, start_time, elapsed, key, steps, stats_log,
                   error, intr_at, tty_mode, rendered>>

\* the positions of run() inside the try block
TryPcs == {"try", "live", "tick", "textures", "input", "render", "sleep",
           "save", "fade", "fade_wait", "gong", "gong_wait", "complete"}

\* the positions of run() inside the except KeyboardInterrupt block
HandlerPcs == {"h_save", "h_fade", "h_wait", "h_msg"}

\* KeyboardInterrupt raised inside the try block: control goes to the except
\* block, whose first statement reads start_time
Interrupt ==
    /\ pc \in TryPcs
    /\ intr_at' = pc
    /\ IF start_time = -1
       THEN /\ error' = "UnboundLocalError"
            /\ pc' = "finally"
       ELSE /\ error' = error
            /\ pc' = "h_save"
    /\ SessionFrame
    /\ UNCHANGED <<now, files, fidx, duration, start_time, elapsed, key, steps, stats_log,
                   message, tty_mode, rendered>>

\* except KeyboardInterrupt: elapsed_total = time.time() - start_time; update_time(elapsed_total)
HandlerSaveStats ==
    /\ pc = "h_save"
    /\ update_time(now - start_time)
    /\ pc' = "h_fade"
    /\ SessionFrame
    /\ UNCHANGED <<now, files, fidx, duration, start_time, elapsed, key,
                   message, error, intr_at, tty_mode, rendered>>

\* except KeyboardInterrupt: self.audio.stop_all(fade_ms=2000)
HandlerFadeOut ==
    /\ pc = "h_fade"
    /\ stop_all
    /\ steps' = Append(steps, "stop_all")
    /\ pc' = "h_wait"
    /\ UNCHANGED <<boot_vars, now, files, fidx, duration, start_time, elapsed, key, stats_log,
                   message, error, intr_at, tty_mode, rendered>>

\* variant of HandlerFadeWait: the handler does not wait for the fade-out
HandlerFadeWaitSkipped ==
    /\ pc = "h_wait"
    /\ pc' = "h_msg"
    /\ SessionFrame
    /\ UNCHANGED <<now, files, fidx, duration, start_time, elapsed, key, steps, stats_log,
                   message, error, intr_at, tty_mode, rendered>>

\* except KeyboardInterrupt: time.sleep(2.0)
HandlerFadeWait ==
    /\ pc = "h_wait"
    /\ now' = now + FADE_WAIT
    /\ steps' = Append(steps, "fade_wait")
    /\ pc' = "h_msg"
    /\ SessionFrame
    /\ UNCHANGED <<files, fidx, duration, start_time, elapsed, key, stats_log,
                   message, error, intr_at, tty_mode, rendered>>

\* except KeyboardInterrupt: print "Session Stopped."
HandlerMessage ==
    /\ pc = "h_msg"
    /\ message' = "Session Stopped."
    /\ pc' = "finally"
    /\ SessionFrame
    /\ UNCHANGED <<now, files, fidx, duration, start_time, elapsed, key, steps, stats_log,
                   error, intr_at, tty_mode, rendered>>

\* KeyboardInterrupt raised inside the except block: nothing catches it
HandlerInterrupt ==
    /\ pc \in HandlerPcs
    /\ error' = "KeyboardInterrupt"
    /\ pc' = "finally"
    /\ SessionFrame
    /\ UNCHANGED <<now, files, fidx, duration, start_time, elapsed, key, steps, stats_log,
                   message, intr_at, tty_mode, rendered>>

\* finally: termios.tcsetattr(sys.stdin, termios.TCSADRAIN, old_settings)
Finally ==
    /\ pc = "finally"
    /\ tty_mode' = "cooked"
    /\ pc' = "done"
    /\ SessionFrame
    /\ UNCHANGED <<now, files, fidx, duration, start_time, elapsed, key, steps, stats_log,
                   message, error, intr_at, rendered>>

Init ==
    /\ AudioInit
    /\ NoSession
    /\ pc = "select"

\* the steps of run() when no interrupt arrives
RunStep ==
    \/ PhaseOneSelection
    \/ NoSelection
    \/ StartAudio
    \/ EnterTry
    \/ SetCbreak
    \/ StartClock
    \/ TickCheck
    \/ TickTextures
    \/ TickInput
    \/ TickRender
    \/ TickSleep
    \/ SaveStats
    \/ FadeOut
    \/ FadeWait
    \/ PlayGong
    \/ GongWait
    \/ Complete
    \/ Finally

\* the steps of run() once an interrupt has arrived
HandlerStep ==
    \/ HandlerSaveStats
    \/ HandlerFadeOut
    \/ HandlerFadeWait
    \/ HandlerMessage

Next ==
    \/ RunStep
    \/ Interrupt
    \/ HandlerStep
    \/ HandlerInterrupt
    \/ BackendStep

Spec == Init /\ [][Next]_vars


(***************************************************************************)
(* The session when no interrupt arrives and the loop keeps being          *)
(* scheduled: run() is a single thread, so its next statement is always    *)
(* eventually executed.                                                    *)
(***************************************************************************)
LiveNext ==
    \/ RunStep
    \/ BackendStep

LiveSpec == Init /\ [][LiveNext]_vars /\ WF_vars(RunStep)


(***************************************************************************)
(* Properties of the session, FocusApp.run.                                *)
(***************************************************************************)
\* how often a step occurs in the log of shutdown steps
Occurrences(step) == Cardinality({i \in 1..Len(steps) : steps[i] = step})

IsPrefix(s, t) == Len(s) <= Len(t) /\ SubSeq(t, 1, Len(s)) = s

\* the positions of run() inside an iteration of the session loop
TickPcs == {"tick", "textures", "input", "render", "sleep"}

\* C1: in one session no shutdown step is executed twice, wherever the
\* interrupt arrives: stop_all runs at most once, the chime is played at most
\* once, update_time is called at most once, and exactly once in a session
\* that started its clock and ended without an error.
C1_ShutdownStepsOnce ==
    /\ Occurrences("stop_all") <= 1
    /\ Occurrences("play_gong") <= 1
    /\ Occurrences("update_time") <= 1
    /\ (pc = "done" /\ start_time # -1 /\ error = "none") => Occurrences("update_time") = 1

\* C2 as stated: a session cancelled during the tick loop runs the five
\* shutdown steps of a finished session.
C2_CancelledRunsAllSteps ==
    (pc = "done" /\ message = "Session Stopped." /\ intr_at \in TickPcs)
        => steps = <<"update_time", "stop_all", "fade_wait", "play_gong", "gong_wait">>

\* C2, amended: a session cancelled during the tick loop runs the accounting,
\* stop_all and the fade wait, in the order of the finished path, and neither
\* the chime nor the settle wait; a session that finishes without an
\* interrupt runs all five steps.
C2_CancelledStepsAmended ==
    /\ (intr_at \in TickPcs) => IsPrefix(steps, <<"update_time", "stop_all", "fade_wait">>)
    /\ (pc = "done" /\ message = "Session Stopped." /\ intr_at \in TickPcs)
           => steps = <<"update_time", "stop_all", "fade_wait">>
    /\ (pc = "done" /\ message = "Session Complete!" /\ intr_at = "none")
           => steps = <<"update_time", "stop_all", "fade_wait", "play_gong", "gong_wait">>

C2_Witness ==
    /\ pc = "done"
    /\ message = "Session Stopped."
    /\ intr_at \in TickPcs
    /\ steps = <<"update_time", "stop_all", "fade_wait">>

\* C3 as stated: the shutdown steps run in the order stop_all, fade wait,
\* chime, settle wait, and the stats write last.
C3_StatsWriteLast ==
    (intr_at = "none")
        => IsPrefix(steps, <<"stop_all", "fade_wait", "play_gong", "gong_wait", "update_time">>)

\* C3, amended: the stats write is the first shutdown step, then stop_all, the
\* fade wait, the chime at master volume and the settle wait, each after the
\* previous one has finished.
C3_StatsWriteFirstAmended ==
    /\ (steps # <<>>) => steps[1] = "update_time"
    /\ (intr_at = "none")
           => IsPrefix(steps, <<"update_time", "stop_all", "fade_wait", "play_gong", "gong_wait">>)
    /\ (pc \in {"complete", "finally", "done"} /\ intr_at = "none" /\ start_time # -1)
           => steps = <<"update_time", "stop_all", "fade_wait", "play_gong", "gong_wait">>
    /\ (pc = "gong_wait" /\ last_call.op = "play_gong")
           => \A c \in Channels : chan[c].pool = "sfx" => chan[c].vol = master_volume

C3_Witness ==
    /\ pc = "done"
    /\ intr_at = "none"
    /\ message = "Session Complete!"
    /\ steps = <<"update_time", "stop_all", "fade_wait", "play_gong", "gong_wait">>
    /\ GONG_FILE \in sfx


\* C4: with the clock advancing on every tick and no interrupt, a session
\* started with any duration reaches Finished (the loop is left for the
\* shutdown sequence); the loop is left at the first tick check whose elapsed
\* time is >= duration, and the steps of an iteration run only after a check
\* with elapsed < duration.
C4_ReachesFinished ==
    /\ (pc = "start_audio") ~> (pc = "save")
    /\ [](pc = "save" => elapsed >= duration)
    /\ [](pc \in {"textures", "input", "render", "sleep"} => elapsed < duration)
    /\ [][(pc = "tick" /\ pc' # "tick" /\ now - start_time >= duration) => pc' = "save"]_vars
    /\ [][(pc = "tick" /\ pc' # "tick") => elapsed' = now - start_time]_vars

C4_Witness ==
    /\ pc = "save"
    /\ duration > 0
    /\ elapsed >= duration
    /\ rendered # -1

\* C5: the stored master volume is the level passed to set_master_volume
\* clamped to [0, 100] percent, so it always lies in that range; a volume-up
\* keystroke at 100 and a volume-down keystroke at 0 leave it unchanged.
C5_MasterVolumeClamped ==
    /\ master_volume \in 0..100
    /\ (last_call.op = "set_master_volume")
           => master_volume = (IF last_call.level < 0 THEN 0
                               ELSE IF last_call.level > 100 THEN 100
                               ELSE last_call.level)
    /\ (pc = "render" /\ key = "+" /\ last_call.level = 105) => master_volume = 100
    /\ (pc = "render" /\ key = "-" /\ last_call.level = -5) => master_volume = 0

C5_Witness ==
    /\ pc = "render"
    /\ key = "+"
    /\ last_call.op = "set_master_volume"
    /\ last_call.level = 105
    /\ master_volume = 100


(***************************************************************************)
(* Properties of the mixer, AudioManager.                                  *)
(***************************************************************************)
\* the channels on which the loop `n` is playing and not fading out
PlayingOn(n) == {c \in Channels : chan[c].pool = "loop" /\ chan[c].name = n /\ chan[c].st = "playing"}

\* C6: after play_sound(name) on a name of the loop pool, the active set
\* (playing and channels) contains the name, whatever preceded the call and
\* however many loops are already playing.
C6_StartedLoopIsActive ==
    (last_call.op = "play_sound" /\ last_call.name \in sounds)
        => (last_call.name \in Range(playing) /\ last_call.name \in Tracked)

\* C7: after stop_all the active set is empty and every channel that was
\* started for a loop is fading out or has stopped.
C7_StopAllReleasesLoops ==
    (last_call.op = "stop_all")
        => /\ playing = <<>>
           /\ Tracked = {}
           /\ \A c \in Channels : chan[c].pool = "loop" => chan[c].st = "fading"

C7_Witness ==
    /\ last_call.op = "stop_all"
    /\ \E c, d \in Channels :
          /\ c # d
          /\ chan[c].st = "fading"
          /\ chan[d].st = "fading"
          /\ chan[c].name = chan[d].name

\* C8: a loop name of the active set is playing on exactly one channel, the
\* one the mixer tracks, also after the name has been started twice.
C8_OneHandlePerName ==
    \A n \in Range(playing) : PlayingOn(n) = {channels[n]}

\* C9: the texture scheduler plays no texture, and picks none, in an
\* evaluation made while the active set is empty.
C9_NoTextureWhenIdle ==
    /\ last_tex.played => playing # <<>>
    /\ (last_tex.fired /\ playing = <<>>)
           => (last_tex.name = "none" /\ last_tex.vol = 0)

\* an evaluation whose interval has elapsed, made after stop_all while a
\* loop is still fading out
C9_Witness ==
    /\ last_tex.fired
    /\ playing = <<>>
    /\ ~last_tex.played
    /\ \E c \in Channels : chan[c].pool = "loop" /\ chan[c].st = "fading"

\* the textures of the themes that match a loop file, as the program computes
\* them for the files of the assets directory
ThemeTexturesOf(loop_file) ==
    CASE loop_file = "rain_sounds.wav" -> {"distant-thunder.mp3", "winter-wind.mp3"}
      [] loop_file = "Sea.mp3" -> {"seagull.mp3", "distant-foghorn.mp3", "winter-wind.mp3"}
      [] OTHER -> {}

\* C10: a texture the scheduler plays is in the loaded texture pool and in the
\* texture list of a theme that matches a loop of the active set; with only
\* rain_sounds.wav active the only theme matched is "Rain Sounds" and the
\* texture picked is one of its two.
C10_TextureFromMatchedTheme ==
    /\ last_tex.played
           => /\ last_tex.name \in textures
              /\ \E i \in 1..Len(playing) : last_tex.name \in ThemeTexturesOf(playing[i])
              /\ \E i \in 1..Len(playing), k \in 1..Len(TEXTURE_KEYS) :
                    /\ last_tex.name \in Range(TEXTURE_MAP(TEXTURE_KEYS[k]))
                    /\ \/ IsSubstring(Lower(Spell(TEXTURE_KEYS[k])), LoopNameClean(playing[i]))
                       \/ IsSubstring(LoopNameClean(playing[i]), Lower(Spell(TEXTURE_KEYS[k])))
    /\ (last_tex.fired /\ playing = <<"rain_sounds.wav">>)
           => /\ MatchedKeys(playing) = {"Rain Sounds"}
              /\ last_tex.name \in {"distant-thunder.mp3", "winter-wind.mp3"}
              /\ last_tex.played = (last_tex.name \in textures)

C10_Witness ==
    /\ last_tex.played
    /\ playing = <<"rain_sounds.wav">>
    /\ last_tex.name = "winter-wind.mp3"

\* C11: a texture the scheduler plays is played at a volume within
\* [0.3 x master_volume, 0.6 x master_volume], master_volume being the
\* master volume at the trigger; the channel it plays on carries that volume.
C11_TextureVolumeInRange ==
    last_tex.played
        => /\ 30 * master_volume <= last_tex.vol
           /\ last_tex.vol <= 60 * master_volume
           /\ \A c \in Channels :
                 (chan[c].pool = "texture" /\ chan[c].name = last_tex.name)
                     => /\ (30 * master_volume) \div 100 <= chan[c].vol
                        /\ chan[c].vol <= (60 * master_volume) \div 100

\* a texture played at the upper end of the range after the master volume
\* was lowered
C11_Witness ==
    /\ last_tex.played
    /\ master_volume = 45
    /\ last_tex.vol = 60 * 45
    /\ \E c \in Channels : chan[c].pool = "texture" /\ chan[c].vol = 27

\* C12: play_sound(name) for a name absent from the loop pool fails with
\* NotFound and leaves the active set, the channels and master_volume
\* unchanged.
C12_AbsentNameFailsNotFound ==
    [][(last_call'.op = "play_sound" /\ last_call'.name \notin sounds)
          => /\ last_call'.raised = "NotFound"
             /\ UNCHANGED <<playing, channels, chan, master_volume>>]_vars

\* C12, amended: play_sound(name) for a name absent from the loop pool
\* returns normally without reporting anything and leaves the active set,
\* the channels and master_volume unchanged.
C12_AbsentNameIsSilentNoOp ==
    [][(last_call'.op = "play_sound" /\ last_call'.name \notin sounds)
          => /\ last_call'.raised = "none"
             /\ ~last_call'.ok
             /\ UNCHANGED <<playing, channels, chan, master_volume>>]_vars

\* an absent name was passed while a loop is active at a lowered volume
C12_Witness ==
    /\ last_call.op = "play_sound"
    /\ last_call.name = "missing.wav"
    /\ last_call.name \notin sounds
    /\ playing = <<"Sea.mp3">>
    /\ master_volume = 45

\* C13: when the audio backend failed to initialize, no mixer operation
\* raises, and a focus session can still be started from the selection
\* prompt (its timer then runs to the end of the session in silence).
C13_SessionRunsWithoutBackend ==
    ~mixer_ok
        => /\ last_call.raised = "none"
           /\ error = "none"
           /\ pc = "select" => ENABLED PhaseOneSelection


(***************************************************************************)
(* Properties of _scan_folder.                                             *)
(***************************************************************************)
\* the names of DirEntries with an extension of valid_extensions
AllowedNames == {"rain_sounds.wav", "Sea.mp3", "broken.ogg", "album.mp3", "LOUD.WAV"}

\* the entries of the scanned directory that are files with an allowed extension
AudioFiles == {e \in Range(folder.items) : e.is_file /\ e.name \in AllowedNames}

\* C14: a scan loads exactly the files with an allowed extension that decode,
\* wherever a file that fails to decode stands in the listing; one corrupt and
\* two valid files yield two samples and one logged failure; a missing
\* directory yields an empty pool and no error.
C14_ScanSkipsDecodeFailures ==
    pc = "scanned"
        => /\ sounds = {e.name : e \in {f \in AudioFiles : f.valid /\ mixer_ok}}
           /\ Range(scan_log) = {e.name : e \in {f \in AudioFiles : ~(f.valid /\ mixer_ok)}}
           /\ error = "none"
           /\ ~folder.exists => (sounds = {} /\ scan_log = <<>>)
           /\ (mixer_ok /\ {e.name : e \in Range(folder.items)} = {"rain_sounds.wav", "Sea.mp3", "broken.ogg"})
                 => (Cardinality(sounds) = 2 /\ scan_log = <<"broken.ogg">>)

\* the corrupt file is listed first, the two valid ones after it
C14_Witness ==
    /\ pc = "scanned"
    /\ mixer_ok
    /\ Len(folder.items) = 3
    /\ folder.items[1].name = "broken.ogg"
    /\ sounds = {"rain_sounds.wav", "Sea.mp3"}
    /\ scan_log = <<"broken.ogg">>


(***************************************************************************)
(* Properties of one iteration of the session loop.                        *)
(***************************************************************************)
\* the volumes play_random_texture may pass to set_volume at master volume m
TextureVolumesAt(m) == {m * f : f \in TextureFactors}

\* the master volume after the key k was handled at master volume m
VolumeAfterKey(k, m) ==
    IF k = "+" THEN Clamp(m + VOLUME_STEP)
    ELSE IF k = "-" THEN Clamp(m - VOLUME_STEP)
    ELSE m

\* C15: in one tick input handling runs before the texture evaluation, which
\* runs before the render: the texture evaluation follows the input step, a
\* texture fired in the tick of a volume keystroke uses the new master
\* volume, and the render shows the new master volume.
C15_InputBeforeTextures ==
    /\ [][(pc' = "textures" /\ pc # "textures") => pc = "input"]_vars
    /\ [][(pc' = "render" /\ pc # "render") => pc = "textures"]_vars
    /\ [][(pc = "input" /\ pc' = "render" /\ last_tex.played)
             => last_tex.vol \in TextureVolumesAt(master_volume')]_vars
    /\ [][(pc = "render" /\ pc' = "sleep") => rendered' = master_volume]_vars

\* C15, amended: in one tick the texture evaluation runs first, then input
\* handling, then the render: a texture fired in the tick of a volume
\* keystroke uses the master volume from before the keystroke, the keystroke
\* is applied to master_volume before the render, and the render shows the
\* new master volume.
C15_TexturesBeforeInputAmended ==
    /\ [][(pc' = "textures" /\ pc # "textures") => pc = "tick"]_vars
    /\ [][(pc' = "input" /\ pc # "input") => pc = "textures"]_vars
    /\ [][(pc' = "render" /\ pc # "render") => pc = "input"]_vars
    /\ [][(pc = "input" /\ pc' = "render" /\ last_tex.played)
             => last_tex.vol \in TextureVolumesAt(master_volume)]_vars
    /\ [][(pc = "input" /\ pc' = "render")
             => master_volume' = VolumeAfterKey(key', master_volume)]_vars
    /\ [][(pc = "render" /\ pc' = "sleep") => rendered' = master_volume]_vars
    /\ [](pc = "sleep" => rendered = master_volume)

\* the first tick of a session: a texture was fired at full master volume,
\* then "-" was read, and the render is about to show 95
C15_Witness ==
    /\ pc = "render"
    /\ elapsed = 0
    /\ key = "-"
    /\ master_volume = 95
    /\ \E c \in Channels : chan[c].pool = "texture" /\ chan[c].st = "playing" /\ chan[c].vol = 60


(***************************************************************************)
(* Properties of the texture scheduler.                                    *)
(***************************************************************************)
\* the ranges weather_freq_range may hold
ConfiguredRanges == {<<600, 1200>>, <<300, 900>>, <<150, 450>>}

InRange(x, r) == r[1] <= x /\ x <= r[2]

\* C16: next_texture_interval is always strictly positive and within a
\* configured range; an evaluation with now - last_texture_time >
\* next_texture_interval sets last_texture_time to now and redraws the
\* interval from the range then in force, whether or not a texture was
\* played; an evaluation with the condition false changes neither.
C16_IntervalRedrawnOnTrigger ==
    /\ [](next_texture_interval > 0)
    /\ [](\E r \in ConfiguredRanges : InRange(next_texture_interval, r))
    /\ [](weather_freq_range \in ConfiguredRanges)
    /\ [][(last_call'.op = "update_textures" /\ now - last_texture_time > next_texture_interval)
             => /\ last_texture_time' = now
                /\ InRange(next_texture_interval', weather_freq_range)
                /\ last_tex'.fired]_vars
    /\ [][(last_call'.op = "update_textures" /\ ~(now - last_texture_time > next_texture_interval))
             => /\ UNCHANGED <<last_texture_time, next_texture_interval>>
                /\ ~last_tex'.fired]_vars
    /\ [][next_texture_interval' # next_texture_interval
             => InRange(next_texture_interval', weather_freq_range)]_vars

\* an evaluation that triggered without playing (the active loop matches no
\* theme) and drew the next interval from the range set in between
C16_Witness ==
    /\ last_call.op = "update_textures"
    /\ last_tex.fired
    /\ ~last_tex.played
    /\ playing = <<"white-noise.wav">>
    /\ now > 0
    /\ last_texture_time = now
    /\ weather_freq_range = <<150, 450>>
    /\ next_texture_interval = 150


LoopChannelsKept == \A c \in Channels : chan[c].pool = "loop" => chan'[c] = chan[c]

\* C18: playing the chime or evaluating the texture scheduler changes
\* neither playing, nor channels, nor master_volume, nor a channel that
\* carries a loop; when the chime or the chosen texture is absent from its
\* pool nothing is played and nothing is raised.
C18_OneShotLeavesActiveSet ==
    /\ [][last_call'.op \in {"play_gong", "update_textures"}
             => /\ UNCHANGED <<playing, channels, master_volume>>
                /\ LoopChannelsKept
                /\ last_call'.raised = "none"]_vars
    /\ [][(last_call'.op = "play_gong" /\ GONG_FILE \notin sfx) => chan' = chan]_vars
    /\ [][(last_call'.op = "update_textures" /\ ~last_tex'.played) => chan' = chan]_vars

\* the chime was asked for while it is absent from the effect pool and two
\* loops are active
C18_Witness ==
    /\ last_call.op = "play_gong"
    /\ mixer_ok
    /\ GONG_FILE \notin sfx
    /\ Len(playing) = 2
    /\ master_volume = 45


(***************************************************************************)
(* Properties of the interrupt handler.                                    *)
(***************************************************************************)
\* C19: an interrupt raised anywhere inside the try block, the steps before
\* the first tick included, is handled without an error: the handler finds
\* start_time set, and once run() is done the elapsed time was handed to the
\* stats, the loops were faded out and the terminal is restored.
C19_InterruptHandled ==
    intr_at # "none"
        => /\ start_time # -1
           /\ error # "UnboundLocalError"
           /\ (pc = "done" /\ error = "none")
                 => /\ Occurrences("update_time") >= 1
                    /\ Occurrences("stop_all") >= 1
                    /\ message = "Session Stopped."
                    /\ tty_mode = "cooked"


(***************************************************************************)
(* Properties of the texture scheduler inside a session.                   *)
(***************************************************************************)
\* C20: in a session no texture is played before the lower bound of the
\* interval range has elapsed since start_time, however long the menus took;
\* and a trigger follows the previous one by more than that lower bound.
C20_NoTextureBeforeLowerBound ==
    /\ [](last_tex.played
            => (start_time # -1 /\ now - start_time >= weather_freq_range[1]))
    /\ [][last_tex'.fired => now - last_texture_time > weather_freq_range[1]]_vars

====
